---------------------------- MODULE Spec2Model ----------------------------
(***************************************************************************)
(* Model of the suicrux front end: the fetch-based request client          *)
(* (requestWrapper, decorateRequest, getHeaderDataDecoration, checkStatus, *)
(* parseJSON) and the App container's dispatch props (checkAuthLogic,      *)
(* handleWindowResize).                                                    *)
(*                                                                         *)
(* Strings that the code inspects are modelled as sequences of segments:   *)
(* a URL is a non-empty sequence over Segments, so that the regular        *)
(* expression test and the concatenation with BASE_API are computed.       *)
(***************************************************************************)
EXTENDS Integers, Sequences, FiniteSets, Bags, TLC

VARIABLES
    token,      \* TokenStore: the persisted credential, or NoToken
    inflight,   \* bag of the pending calls' positions in the promise chain
    lastSent,   \* headers of the request most recently handed to fetch
    lastDone,   \* how the most recently settled call settled
    evicted,    \* a 401/403 was processed and no login happened since
    built,      \* inputs and output of the last decorateRequest evaluation
    browser,    \* process.env.BROWSER
    mounted,    \* App: componentWillMount has run
    props,      \* App: this.props (location.pathname, isLoggedIn)
    prevProps,  \* App: this.props before the last update
    lastCheck,  \* App: the last checkAuthLogic call and what it dispatched
    clock,      \* ms since page load
    resizer,    \* handleWindowResize's closure variable (timer id, 0 = undefined)
    timers,     \* pending setTimeout timers
    nextTimer,  \* next timer id setTimeout returns
    lastEvent,  \* the last handleWindowResize invocation
    sinceEvent, \* WINDOW_RESIZE dispatches since the last invocation
    lastResize  \* the last WINDOW_RESIZE dispatched

clientVars == <<token, inflight, lastSent, lastDone, evicted>>
appVars == <<browser, mounted, props, prevProps, lastCheck, clock, resizer,
             timers, nextTimer, lastEvent, sinceEvent, lastResize>>
vars == <<token, inflight, lastSent, lastDone, evicted, built, browser, mounted,
          props, prevProps, lastCheck, clock, resizer, timers, nextTimer,
          lastEvent, sinceEvent, lastResize>>

(***************************************************************************)
(* Bounds                                                                  *)
(***************************************************************************)
MaxUrlLen == 2
MaxInFlight == 2
MaxEvents == 3
MaxTicks == 8

(***************************************************************************)
(* Input domains                                                           *)
(***************************************************************************)
EmptyObj == [k \in {} |-> ""]

NoToken == "null"
Tokens == {"t1", "t2"}

Verbs == {"GET", "POST", "PUT", "PATCH", "DELETE"}

Schemes == {"http://", "https://", "ftp://"}
Segments == Schemes \cup {"/path"}
Urls == UNION {[1..n -> Segments] : n \in 1..MaxUrlLen}

BASE_API == "http://localhost:4000/api/v1"

\* data: null, a plain object, a FormData instance, an object with a cycle
NullData == [kind |-> "null"]
Datas == {NullData, [kind |-> "object", id |-> 1], [kind |-> "formdata"],
          [kind |-> "circular"]}

OptionSets == {EmptyObj,
               [credentials |-> "include"],
               [headers |-> [Accept |-> "text/plain"]]}

Statuses == {200, 204, 302, 400, 401, 403, 404, 418, 500}
JsonBodies == {[id |-> 1], [error |-> "not found"]}
Bodies == {[parseable |-> TRUE, json |-> j] : j \in JsonBodies}
            \cup {[parseable |-> FALSE, json |-> EmptyObj]}

(***************************************************************************)
(* TokenStore (api/LocalStorageCookiesSvc)                                 *)
(***************************************************************************)
getLocalToken == token

resetLocalToken == NoToken

(***************************************************************************)
(* decorateRequest and getHeaderDataDecoration                             *)
(***************************************************************************)
\* a JavaScript truthiness test of `data` and of `token`
Truthy(data) == data.kind # "null"

TokenTruthy(t) == t # NoToken

\* JSON.stringify(data); it throws on a cyclic structure
StringifyThrows(data) == data.kind = "circular"

Stringify(data) ==
    CASE data.kind = "object" -> "{\"id\":" \o ToString(data.id) \o "}"
      [] data.kind = "formdata" -> "{}"
      [] OTHER -> "null"

InstanceOfFormData(data) == data.kind = "formdata"

\* /(http|https):\/\//.test(url): an unanchored search
IsRequestToExternalResource(url) ==
    \E i \in 1..Len(url) : url[i] \in {"http://", "https://"}

ResolveURL(url) ==
    IF IsRequestToExternalResource(url) THEN url ELSE <<BASE_API>> \o url

RequestAuthDecoration(url, t) ==
    IF ~IsRequestToExternalResource(url) /\ TokenTruthy(t)
    THEN [headers |-> [Authorization |-> "JWT " \o t]]
    ELSE EmptyObj

\* variant: the Content-Type is added only together with a body
getHeaderDataDecoration_ContentTypeWithBodyOnly(data) ==
    IF Truthy(data)
    THEN IF InstanceOfFormData(data)
         THEN [body |-> Stringify(data)]
         ELSE [body |-> Stringify(data),
               headers |->
                    [ct \in {"Content-Type"} |-> "application/json; charset=UTF-8"]]
    ELSE EmptyObj

getHeaderDataDecoration(data) ==
    LET requesDataDecoration ==
            IF Truthy(data) THEN [body |-> Stringify(data)] ELSE EmptyObj
        requestContentTypeDecoration ==
            IF InstanceOfFormData(data)
            THEN EmptyObj
            ELSE [headers |->
                    [ct \in {"Content-Type"} |-> "application/json; charset=UTF-8"]]
    IN  requestContentTypeDecoration @@ requesDataDecoration

\* _.merge(dst, src): src's keys override, the nested headers object is merged
Merge(dst, src) ==
    [k \in DOMAIN dst \cup DOMAIN src |->
        IF k \in DOMAIN src
        THEN IF k = "headers" /\ k \in DOMAIN dst
             THEN src[k] @@ dst[k]
             ELSE src[k]
        ELSE dst[k]]

Defaults(method) == [method |-> method, headers |-> EmptyObj]

\* the objects merged into the request, in order; `options` and `cb` are
\* received by decorateRequest and used nowhere in its body
MergeLayers(method, url, data, options, t) ==
    << Defaults(method),
       RequestAuthDecoration(url, t),
       getHeaderDataDecoration(data) >>

RECURSIVE MergeAll(_, _)
MergeAll(acc, layers) ==
    IF layers = <<>> THEN acc
    ELSE MergeAll(Merge(acc, Head(layers)), Tail(layers))

decorateRequest(method, url, data, options, t) ==
    [URL |-> ResolveURL(url),
     request |-> MergeAll(EmptyObj, MergeLayers(method, url, data, options, t))]

(***************************************************************************)
(* checkStatus and parseJSON                                               *)
(***************************************************************************)
\* variant: the token is reset on 401 only
checkStatus_Only401(status) == IF status = 401 THEN 1 ELSE 0

\* variant: the token is reset on every 4xx status
checkStatus_Any4xx(status) == IF status >= 400 /\ status < 500 THEN 1 ELSE 0

\* the number of resetLocalToken() calls checkStatus makes for a status
checkStatus(status) ==
    IF status >= 200 /\ status < 300 THEN 0
    ELSE IF status >= 300 /\ status < 400 THEN 0
    ELSE IF status = 400 THEN 0
    ELSE IF status = 403 \/ status = 401 THEN 1
    ELSE IF status = 404 THEN 0
    ELSE IF status >= 500 THEN 0
    ELSE 0

\* Response.ok of the fetch API
ResponseOk(status) == status >= 200 /\ status <= 299

\* variant: an unparseable body counts as an empty success for every 2xx status
parseJSON_Any2xxEmpty(status, body) ==
    IF ~body.parseable
    THEN IF ResponseOk(status)
         THEN [ok |-> TRUE, data |-> EmptyObj]
         ELSE [ok |-> FALSE]
    ELSE [data |-> body.json, ok |-> ResponseOk(status)]

parseJSON(status, body) ==
    IF ~body.parseable
    THEN IF status = 204
         THEN [ok |-> TRUE, data |-> EmptyObj]
         ELSE [ok |-> FALSE]
    ELSE IF ~ResponseOk(status)
         THEN [data |-> body.json, ok |-> FALSE]
         ELSE [data |-> body.json, ok |-> TRUE]

\* the value the .catch handler returns: the caught error itself
CatchHandler(err) == err

FetchError == [error |-> "TypeError: Failed to fetch"]
StringifyError == [error |-> "TypeError: Converting circular structure to JSON"]


(***************************************************************************)
(* The request client as a state machine                                   *)
(***************************************************************************)
NothingSent == [any |-> FALSE, headers |-> EmptyObj, afterEvict |-> FALSE]

NoCall == [kind |-> "none", value |-> EmptyObj, responded |-> FALSE,
           status |-> 0, body |-> [parseable |-> FALSE, json |-> EmptyObj],
           clears |-> 0]

NotBuilt == [any |-> FALSE]

Sent == [pc |-> "sent", status |-> 0, clears |-> 0]

Checked(status, clears) == [pc |-> "checked", status |-> status, clears |-> clears]

One(c) == SetToBag({c})

Paths == {"/", "/auth", "/inbox"}

PropSets == [pathname : Paths, isLoggedIn : BOOLEAN]

NoCheck == [any |-> FALSE, path |-> "", isLoggedIn |-> FALSE, dispatched |-> <<>>]

NoEvent == [any |-> FALSE, id |-> 0, time |-> 0, width |-> 0]

AppUnmounted ==
    /\ mounted = FALSE
    /\ lastCheck = NoCheck
    /\ clock = 0
    /\ resizer = 0
    /\ timers = {}
    /\ nextTimer = 1
    /\ lastEvent = NoEvent
    /\ sinceEvent = 0
    /\ lastResize = NoEvent

AppIdle ==
    /\ browser = TRUE
    /\ props = [pathname |-> "/", isLoggedIn |-> FALSE]
    /\ prevProps = props
    /\ AppUnmounted

ClientIdle ==
    /\ inflight = EmptyBag
    /\ lastSent = NothingSent
    /\ lastDone = NoCall
    /\ evicted = FALSE
    /\ built = NotBuilt

InitClient ==
    /\ token \in Tokens \cup {NoToken}
    /\ AppIdle
    /\ ClientIdle

Init == InitClient

\* a login stores a new token (outside the request client)
Login(t) ==
    /\ token' = t
    /\ evicted' = FALSE
    /\ UNCHANGED <<inflight, lastSent, lastDone, built>>
    /\ UNCHANGED appVars

\* get/post/put/patch/del(url, data, options): the async function's body up to
\* the fetch call; an exception of decorateRequest rejects the returned promise
Call(method, url, data, options) ==
    /\ BagCardinality(inflight) < MaxInFlight
    /\ IF StringifyThrows(data)
       THEN /\ lastDone' = [NoCall EXCEPT !.kind = "rejected",
                                           !.value = StringifyError]
            /\ UNCHANGED <<inflight, lastSent>>
       ELSE LET d == decorateRequest(method, url, data, options, getLocalToken)
            IN  /\ inflight' = inflight (+) One(Sent)
                /\ lastSent' = [any |-> TRUE, headers |-> d.request.headers,
                                afterEvict |-> evicted]
                /\ UNCHANGED lastDone
    /\ UNCHANGED <<token, evicted, built>>
    /\ UNCHANGED appVars

\* fetch rejects (no response): .catch logs the error and returns it
FetchReject ==
    /\ BagIn(Sent, inflight)
    /\ inflight' = inflight (-) One(Sent)
    /\ lastDone' = [NoCall EXCEPT !.kind = "resolved",
                                   !.value = CatchHandler(FetchError)]
    /\ UNCHANGED <<token, lastSent, evicted, built>>
    /\ UNCHANGED appVars

\* fetch resolves with a response of this status: .then(checkStatus)
CheckStatus(status) ==
    /\ BagIn(Sent, inflight)
    /\ LET n == checkStatus(status)
       IN  /\ token' = IF n > 0 THEN resetLocalToken ELSE token
           /\ inflight' = (inflight (-) One(Sent)) (+) One(Checked(status, n))
    /\ evicted' = (evicted \/ status \in {401, 403})
    /\ UNCHANGED <<lastSent, lastDone, built>>
    /\ UNCHANGED appVars

\* .then(parseJSON): res.json() settles and the call resolves
ParseJSON(c, body) ==
    /\ BagIn(c, inflight)
    /\ c.pc = "checked"
    /\ inflight' = inflight (-) One(c)
    /\ lastDone' = [kind |-> "resolved", value |-> parseJSON(c.status, body),
                    responded |-> TRUE, status |-> c.status, body |-> body,
                    clears |-> c.clears]
    /\ UNCHANGED <<token, lastSent, evicted, built>>
    /\ UNCHANGED appVars

\* the calls of the pipeline runs: every verb and payload, the one-segment URLs
PipelineUrls == {u \in Urls : Len(u) = 1}

Next ==
    \/ \E t \in Tokens : Login(t)
    \/ \E m \in Verbs, u \in PipelineUrls, d \in Datas : Call(m, u, d, EmptyObj)
    \/ FetchReject
    \/ \E s \in Statuses : CheckStatus(s)
    \/ \E c \in BagToSet(inflight), b \in Bodies : ParseJSON(c, b)

Spec == Init /\ [][Next]_vars

(***************************************************************************)
(* decorateRequest on its own: every input, one evaluation                 *)
(***************************************************************************)
Decorate(method, url, data, options) ==
    /\ ~built.any
    /\ ~StringifyThrows(data)
    /\ LET d == decorateRequest(method, url, data, options, getLocalToken)
       IN  built' = [any |-> TRUE, method |-> method, url |-> url, data |-> data,
                     options |-> options, token |-> token,
                     URL |-> d.URL, request |-> d.request]
    /\ UNCHANGED clientVars
    /\ UNCHANGED appVars

NextBuild ==
    \E m \in Verbs, u \in Urls, d \in Datas, o \in OptionSets : Decorate(m, u, d, o)

SpecBuild == Init /\ [][NextBuild]_vars


(***************************************************************************)
(* App container: checkAuthLogic and handleWindowResize                    *)
(***************************************************************************)
ResizeDelay == 150

\* time advances in these steps (ms)
Steps == {50, 100}

Widths == {320, 1024}

Push(path) == [type |-> "@@router/CALL_HISTORY_METHOD", method |-> "push",
               path |-> path]

\* variant: the path is not compared
checkAuthLogic_IgnoresPath(path, isLoggedIn) ==
    IF isLoggedIn THEN <<Push("/")>> ELSE <<>>

\* mapDispatchToProps.checkAuthLogic: the actions it dispatches
checkAuthLogic(path, isLoggedIn) ==
    LET authPath == "/auth"
        homePath == "/"
    IN  IF isLoggedIn /\ path = authPath THEN <<Push(homePath)>> ELSE <<>>

\* App.checkAppAuthLogic(isLoggedIn): the path is read from this.props
checkAppAuthLogic(isLoggedIn) ==
    lastCheck' = [any |-> TRUE, path |-> props.pathname, isLoggedIn |-> isLoggedIn,
                  dispatched |-> checkAuthLogic(props.pathname, isLoggedIn)]

\* variant: the pending timer is not cancelled
ClearTimeout_Noop(ts, id) == ts

\* clearTimeout(id): a pending timer of that id is removed
ClearTimeout(ts, id) == {t \in ts : t.id # id}

\* mapDispatchToProps.handleWindowResize, with the inner width it reads
handleWindowResize(innerWidth) ==
    /\ timers' = ClearTimeout(timers, resizer)
                    \cup {[id |-> nextTimer, at |-> clock + ResizeDelay,
                           width |-> innerWidth]}
    /\ resizer' = nextTimer
    /\ nextTimer' = nextTimer + 1
    /\ lastEvent' = [any |-> TRUE, id |-> nextTimer, time |-> clock,
                     width |-> innerWidth]
    /\ sinceEvent' = 0

\* App.componentWillMount
Mount(innerWidth) ==
    /\ ~mounted
    /\ mounted' = TRUE
    /\ IF browser
       THEN handleWindowResize(innerWidth)
       ELSE UNCHANGED <<timers, resizer, nextTimer, lastEvent, sinceEvent>>
    /\ checkAppAuthLogic(props.isLoggedIn)
    /\ UNCHANGED <<browser, props, prevProps, clock, lastResize>>
    /\ UNCHANGED <<clientVars, built>>

\* App.componentWillReceiveProps(nextProps), then the props are replaced
ReceiveProps(nextProps) ==
    /\ mounted
    /\ checkAppAuthLogic(nextProps.isLoggedIn)
    /\ prevProps' = props
    /\ props' = nextProps
    /\ UNCHANGED <<browser, mounted, clock, resizer, timers, nextTimer, lastEvent,
                   sinceEvent, lastResize>>
    /\ UNCHANGED <<clientVars, built>>

\* the window's resize event reaches the registered listener
Resize(innerWidth) ==
    /\ mounted /\ browser
    /\ nextTimer <= MaxEvents
    /\ handleWindowResize(innerWidth)
    /\ UNCHANGED <<browser, mounted, props, prevProps, lastCheck, clock, lastResize>>
    /\ UNCHANGED <<clientVars, built>>

\* a timer is due: its callback dispatches WINDOW_RESIZE(innerWidth)
TimerFire(t) ==
    /\ t \in timers
    /\ t.at <= clock
    /\ timers' = timers \ {t}
    /\ lastResize' = [any |-> TRUE, id |-> t.id, time |-> clock, width |-> t.width]
    /\ sinceEvent' = sinceEvent + 1
    /\ UNCHANGED <<browser, mounted, props, prevProps, lastCheck, clock, resizer,
                   nextTimer, lastEvent>>
    /\ UNCHANGED <<clientVars, built>>

\* time passes, never beyond a pending timer's due time; the runs end after
\* MaxTicks periods of 50 ms
Tick(d) ==
    /\ clock + d <= 50 * MaxTicks
    /\ \A t \in timers : clock + d <= t.at
    /\ clock' = clock + d
    /\ UNCHANGED <<browser, mounted, props, prevProps, lastCheck, resizer, timers,
                   nextTimer, lastEvent, sinceEvent, lastResize>>
    /\ UNCHANGED <<clientVars, built>>

InitApp ==
    /\ token = NoToken
    /\ ClientIdle
    /\ browser \in BOOLEAN
    /\ props \in PropSets
    /\ prevProps = props
    /\ AppUnmounted

NextApp ==
    \/ \E w \in Widths : Mount(w)
    \/ \E p \in PropSets : ReceiveProps(p)
    \/ \E w \in Widths : Resize(w)
    \/ \E t \in timers : TimerFire(t)
    \/ \E d \in Steps : Tick(d)

SpecApp == InitApp /\ [][NextApp]_vars


(***************************************************************************)
(* Properties                                                              *)
(***************************************************************************)
IsResult(v) == "ok" \in DOMAIN v /\ v.ok \in BOOLEAN

\* a URL that begins with a scheme:// prefix, whatever the scheme
IsAbsoluteUrl(url) == url[1] \in Schemes

HasHeader(request, name) == name \in DOMAIN request.headers

JsonContentType == "application/json; charset=UTF-8"

ClearsFor(status) == IF status \in {401, 403} THEN 1 ELSE 0

CheckedCalls == {c \in BagToSet(inflight) : c.pc = "checked"}

\* C1: every settled call resolves (the promise never rejects) to a Result with
\* a boolean ok, and a transport or parsing failure gives ok = FALSE.
C1_EveryCallYieldsResult ==
    lastDone.kind # "none" =>
        /\ lastDone.kind = "resolved"
        /\ IsResult(lastDone.value)
        /\ (~lastDone.responded => lastDone.value.ok = FALSE)

\* C2: during a request that receives a response, resetLocalToken is invoked
\* exactly once when the status is 401 or 403 and never for any other status;
\* it is never invoked when fetch rejects without a response.
C2_TokenClearedOnlyOn401Or403 ==
    /\ \A c \in CheckedCalls : c.clears = ClearsFor(c.status)
    /\ lastDone.responded => lastDone.clears = ClearsFor(lastDone.status)
    /\ (lastDone.kind # "none" /\ ~lastDone.responded) => lastDone.clears = 0

C2_Witness ==
    /\ lastDone.responded /\ lastDone.status = 401 /\ lastDone.clears = 1
    /\ \E c \in CheckedCalls : c.status = 404 /\ c.clears = 0

\* C3: a request to a relative URL built while the store holds token t carries
\* Authorization = "JWT " + t; a request to a scheme:// URL carries no
\* Authorization header; without a token a relative request is built without one.
C3_AuthHeaderOnlyOnInternal ==
    built.any =>
        IF IsAbsoluteUrl(built.url)
        THEN ~HasHeader(built.request, "Authorization")
        ELSE IF built.token # NoToken
             THEN /\ HasHeader(built.request, "Authorization")
                  /\ built.request.headers["Authorization"] = "JWT " \o built.token
             ELSE ~HasHeader(built.request, "Authorization")

\* C4: the URL passed to fetch is BASE_API + url for a relative url and the
\* input unchanged for a url that begins with scheme://, whatever the scheme;
\* a relative url that contains http:// later on is still resolved as internal.
C4_UrlResolution ==
    built.any =>
        built.URL = IF IsAbsoluteUrl(built.url)
                    THEN built.url
                    ELSE <<BASE_API>> \o built.url

\* C5 as stated: FormData gives no Content-Type; other present data gives the
\* JSON body and the JSON Content-Type; absent data gives neither a body nor a
\* Content-Type header.
C5_PayloadDecoration_AsStated ==
    built.any =>
        CASE built.data.kind = "formdata" ->
                ~HasHeader(built.request, "Content-Type")
          [] built.data.kind = "object" ->
                /\ "body" \in DOMAIN built.request
                /\ built.request.body = "{\"id\":1}"
                /\ HasHeader(built.request, "Content-Type")
                /\ built.request.headers["Content-Type"] = JsonContentType
          [] OTHER ->
                /\ "body" \notin DOMAIN built.request
                /\ ~HasHeader(built.request, "Content-Type")

\* C5 amended: FormData gives no Content-Type; other present data gives the
\* JSON body and the JSON Content-Type; absent data gives no body, and the
\* request still carries Content-Type: application/json; charset=UTF-8.
C5_PayloadDecoration ==
    built.any =>
        CASE built.data.kind = "formdata" ->
                ~HasHeader(built.request, "Content-Type")
          [] built.data.kind = "object" ->
                /\ "body" \in DOMAIN built.request
                /\ built.request.body = "{\"id\":1}"
                /\ HasHeader(built.request, "Content-Type")
                /\ built.request.headers["Content-Type"] = JsonContentType
          [] OTHER ->
                /\ "body" \notin DOMAIN built.request
                /\ HasHeader(built.request, "Content-Type")
                /\ built.request.headers["Content-Type"] = JsonContentType

C5_Witness ==
    /\ built.any
    /\ built.data = NullData
    /\ built.method = "GET"
    /\ "body" \notin DOMAIN built.request
    /\ built.request.headers["Content-Type"] = JsonContentType

\* C6: the caller's options are the last layer of the merge: every key of
\* options appears in the request sent, with the caller's value.
C6_OptionsMergedLast ==
    built.any =>
        \A k \in DOMAIN built.options :
            /\ k \in DOMAIN built.request
            /\ IF k = "headers"
               THEN \A h \in DOMAIN built.options.headers :
                        /\ HasHeader(built.request, h)
                        /\ built.request.headers[h] = built.options.headers[h]
               ELSE built.request[k] = built.options[k]

\* C7: whatever the status, the body stage runs: a parseable body gives
\* {ok: status is 2xx, data: parsed}; an unparseable body gives
\* {ok: true, data: {}} for 204 and {ok: false} for every other status.
C7_BodyStage ==
    /\ \A c \in CheckedCalls : \A b \in Bodies : ENABLED ParseJSON(c, b)
    /\ lastDone.responded =>
        IF lastDone.body.parseable
        THEN lastDone.value = [ok |-> (lastDone.status \in 200..299),
                               data |-> lastDone.body.json]
        ELSE IF lastDone.status = 204
             THEN lastDone.value = [ok |-> TRUE, data |-> EmptyObj]
             ELSE lastDone.value = [ok |-> FALSE]

C7_Witness ==
    /\ lastDone.responded
    /\ lastDone.status = 401
    /\ lastDone.body.parseable
    /\ lastDone.value = [ok |-> FALSE, data |-> [error |-> "not found"]]

\* C8: once a 401/403 was processed the token is cleared and stays cleared until
\* a login; a request built in that period carries no Authorization header;
\* concurrent clears leave the same cleared state; only a login sets a token.
C8_EvictionIsOneWay ==
    /\ [](evicted => token = NoToken)
    /\ [](lastSent.afterEvict => "Authorization" \notin DOMAIN lastSent.headers)
    /\ [][token' # token => (token' = NoToken \/ \E t \in Tokens : Login(t))]_vars

C8_Witness ==
    /\ evicted /\ token = NoToken
    /\ lastDone.responded /\ lastDone.clears = 1
    /\ \E c \in CheckedCalls : c.clears = 1
    /\ lastSent.afterEvict

C10_ResizeDebounce ==
    /\ Cardinality(timers) <= 1
    /\ lastEvent.any =>
        /\ sinceEvent <= 1
        /\ clock < lastEvent.time + 150 => sinceEvent = 0
        /\ clock > lastEvent.time + 150 => sinceEvent = 1
        /\ sinceEvent = 0 =>
              timers = {[id |-> lastEvent.id, at |-> lastEvent.time + 150,
                         width |-> lastEvent.width]}
        /\ sinceEvent = 1 =>
              /\ timers = {}
              /\ lastResize = [any |-> TRUE, id |-> lastEvent.id,
                               time |-> lastEvent.time + 150,
                               width |-> lastEvent.width]

C10_Witness ==
    /\ lastEvent.any /\ lastEvent.id = 3 /\ lastEvent.time = 100
    /\ lastEvent.width = 1024
    /\ sinceEvent = 1
    /\ lastResize.any /\ lastResize.time = 250 /\ lastResize.width = 1024

=============================================================================
